---- MODULE Spec2Model ----
(***************************************************************************)
(* Model of src/main.py: the catapult robot's menu, the cooperative        *)
(* uasyncio loop with its two tasks (manage_drive and run), the mission    *)
(* routines of Player and the Catapult stall-homing calls.                 *)
(*                                                                         *)
(* Units.  Time is counted in scheduler units of 10 ms, so sleep(0.01) is  *)
(* 1 unit, sleep(0.02) 2 units, sleep(0.1) 10 units, sleep(0.2) 20 units.  *)
(* turn_rate, drive_speed_factor and the arguments of drivebase.drive()    *)
(* are kept in hundredths (the code computes them with the float factors   *)
(* 0.5, -0.2 and 0.7); drive_speed and reflectance are kept in units.      *)
(***************************************************************************)
EXTENDS Integers, Sequences, FiniteSets, TLC

\* ------------------------------------------------------------------------
\* Bounds of the model (not program constants)
\* ------------------------------------------------------------------------
\* time.time() - move_start is tracked up to this many units, then saturates
MaxElapsed == 4
\* phase-elapsed time (units) after which the specification expects the decay
DecayThreshold == 2
\* largest value ColorSensor.reflection() delivers (percent)
MaxReflection == 100

\* ------------------------------------------------------------------------
\* Program constants
\* ------------------------------------------------------------------------
PROPORTIONAL_GAIN == 5          \* 0.5, in tenths
BLACK == 10
WHITE == 90
BW_THRESHOLD == (BLACK + WHITE) \div 2
MAX_SPEED == 100
BACKWARDS_FACTOR == 7           \* Player.BACKWARDS_FACTOR = 0.7, in tenths
K_FORWARD == 10                 \* k = 1, in tenths
K_BACKWARDS == -2               \* k = -0.2, in tenths
TENSION_MIN == 40
TENSION_MAX == 100
ASYQ_MIN == 1
ASYQ_MAX == 4
TENSION_INIT == 60
ASYQ_INIT == 3
SPEED_FACTOR_INIT == 100        \* drive_speed_factor = 1, in hundredths
SLEEP_DRIVE == 1                \* uasyncio.sleep(0.01)
SLEEP_FOLLOW == 2               \* uasyncio.sleep(0.02)
SLEEP_WALB == 10                \* uasyncio.sleep(0.1)
SLEEP_SETTLE == 20              \* uasyncio.sleep(0.2)

\* ANGLES[asyq], the aiming turn made before the shot
ANGLES == [a \in ASYQ_MIN..ASYQ_MAX |->
             CASE a = 1 -> -10 [] a = 2 -> -3 [] a = 3 -> 0 [] a = 4 -> 3]

\* the names bound at module level; a bare name inside a method resolves
\* against these (and the method's locals), never against the class body
ModuleGlobals == {"CATAPULT_DEFAULT_POWER", "AXLE_TRACK", "WHEEL_DIAMETER",
                  "PROPORTIONAL_GAIN", "BLACK", "WHITE", "BW_THRESHOLD",
                  "TENSION", "MAX_SPEED", "ANGLES", "TOTAL_DISTANCE"}
\* the names bound in the body of class Player; reachable only as self.NAME
PlayerClassAttrs == {"MODE_START", "MODE_WALK_ALONG_LINE", "MODE_THROW_POSITION",
                     "MODE_RETURN", "MODE_FINISH", "BACKWARDS_FACTOR"}
\* the attributes MainMenu.__init__ sets on the instance
MainMenuAttrs == {"screen", "player", "current_item", "items"}

Colors == {"GREEN", "RED", "WHITE"}
Buttons == {"UP", "DOWN", "LEFT", "RIGHT", "CENTER", "NONE"}
Tasks == {"drive", "mission"}
Phases == <<"INIT", "ALIGN_ON_START", "FORWARD_FOLLOW", "THROW",
            "BACKWARD_FOLLOW", "DONE">>
PhaseSet == {Phases[i] : i \in 1..Len(Phases)}
\* reflectance readings delivered to the running mission
SampleReflections == {BLACK, BW_THRESHOLD, WHITE}

VARIABLES
  program,            \* where the main script is
  menu_item,          \* MainMenu.current_item
  set_item,           \* SettingsPage.current_item
  set_tension,        \* SettingsPage.settings[0][1]
  set_asyq,           \* SettingsPage.settings[1][1]
  tension, asyq,      \* Player.tension, Player.asyq
  drive_speed,        \* Player.drive_speed
  turn_rate,          \* Player.turn_rate (hundredths)
  drive_speed_factor, \* Player.drive_speed_factor (hundredths)
  elapsed,            \* time.time() - Player.move_start (units, saturating)
  catapult,           \* position of the release motor
  cmd,                \* the last call made on the drivebase
  left_color,         \* last value of left_color_sensor.color()
  refl,               \* last value of right_color_sensor.reflection()
  backwards_arg,      \* last backwards argument of update_speed_turn_rate
  phase,              \* which routine of run() the mission task is in
  pc,                 \* the mission task's position inside that routine
  run_state,          \* the run() coroutine: pending, running, returned, raised
  ready,              \* the loop's run queue, in order
  delay,              \* units until each sleeping task is due
  current,            \* the task holding the processor between two awaits
  call_idx,           \* which call of Catapult.shoot is in progress (0: none)
  unit_call,          \* component harness: the last call made and the state before it
  issued              \* the last call manage_drive made on the drivebase

vars == <<program, menu_item, set_item, set_tension, set_asyq, tension, asyq,
          drive_speed, turn_rate, drive_speed_factor, elapsed, catapult, cmd,
          left_color, refl, backwards_arg, phase, pc, run_state, ready, delay,
          current, call_idx, unit_call, issued>>

menuVars == <<menu_item, set_item, set_tension, set_asyq, tension, asyq>>
cmdVars == <<drive_speed, turn_rate, drive_speed_factor>>
sensorVars == <<left_color, refl, backwards_arg>>
missionVars == <<phase, pc, run_state, call_idx>>
schedVars == <<ready, delay, current>>

\* ------------------------------------------------------------------------
\* Pure helpers
\* ------------------------------------------------------------------------
Min(a, b) == IF a < b THEN a ELSE b
Max(a, b) == IF a > b THEN a ELSE b

\* mutation: the decrement without its lower clamp
SettingsLeft_unclamped(lo, hi, value) == Min(value - 1, hi)

\* SettingsPage.process_input, Button.LEFT branch: the clamped decrement
SettingsLeft(lo, hi, value) == Min(Max(lo, value - 1), hi)
\* SettingsPage.process_input, Button.RIGHT branch: the clamped increment
SettingsRight(lo, hi, value) == Min(Max(lo, value + 1), hi)

\* mutation: the deviation taken from the black level, not from the midpoint
update_speed_turn_rate_black(r, backwards) ==
  LET deviation == r - BLACK
      k == IF backwards THEN K_BACKWARDS ELSE K_FORWARD
  IN  PROPORTIONAL_GAIN * deviation * k

\* Player.update_speed_turn_rate: the new turn_rate (hundredths) for the
\* reflectance r read from the right sensor
update_speed_turn_rate(r, backwards) ==
  LET deviation == r - BW_THRESHOLD
      k == IF backwards THEN K_BACKWARDS ELSE K_FORWARD
  IN  PROPORTIONAL_GAIN * deviation * k

\* mutation: the stop branch left out
manage_drive_nostop(speed, factor, rate) ==
  [op |-> "drive", speed |-> speed * factor, turn |-> rate]

\* Player.manage_drive, one iteration: the call made on the drivebase
manage_drive(speed, factor, rate) ==
  IF speed = 0
    THEN [op |-> "stop", speed |-> 0, turn |-> 0]
    ELSE [op |-> "drive", speed |-> speed * factor, turn |-> rate]

\* Catapult.release / Catapult.lock: where the release motor stands once
\* run_until_stalled has returned
release(c) == "RELEASED"
lock(c) == "LOCKED"
CatapultCall(name, c) == IF name = "release" THEN release(c) ELSE lock(c)
\* mutation: shoot() without the closing lock()
ShootCalls_nolock == <<"release">>

\* Catapult.shoot: the calls it makes, in order
ShootCalls == <<"release", "lock">>
RECURSIVE ApplyCalls(_, _)
ApplyCalls(calls, c) ==
  IF calls = <<>> THEN c
  ELSE ApplyCalls(Tail(calls), CatapultCall(Head(calls), c))
shoot(c) == ApplyCalls(ShootCalls, c)

\* Player.backwards: drive_speed = -MAX_SPEED * BACKWARDS_FACTOR names
\* BACKWARDS_FACTOR bare; the assignment raises NameError unless the name is
\* bound at module level
backwards ==
  IF "BACKWARDS_FACTOR" \in ModuleGlobals
    THEN [raised |-> FALSE,
          drive_speed |-> (-MAX_SPEED * BACKWARDS_FACTOR) \div 10,
          turn_rate |-> 0]
    ELSE [raised |-> TRUE, drive_speed |-> drive_speed, turn_rate |-> turn_rate]

\* mutation: run() awaits throw_routine before walk_along_line_forward
NextPhase_swapped(p) ==
  CASE p = "INIT" -> "ALIGN_ON_START"
    [] p = "ALIGN_ON_START" -> "THROW"
    [] p = "THROW" -> "FORWARD_FOLLOW"
    [] p = "FORWARD_FOLLOW" -> "BACKWARD_FOLLOW"
    [] p = "BACKWARD_FOLLOW" -> "DONE"
    [] OTHER -> "DONE"

\* run(): the routine awaited after the one for phase p has returned
NextPhase(p) ==
  CASE p = "INIT" -> "ALIGN_ON_START"
    [] p = "ALIGN_ON_START" -> "FORWARD_FOLLOW"
    [] p = "FORWARD_FOLLOW" -> "THROW"
    [] p = "THROW" -> "BACKWARD_FOLLOW"
    [] p = "BACKWARD_FOLLOW" -> "DONE"
    [] OTHER -> "DONE"

PhaseIndex(p) == CHOOSE i \in 1..Len(Phases) : Phases[i] = p

\* ------------------------------------------------------------------------
\* The uasyncio loop: run queue and sleeping tasks
\* ------------------------------------------------------------------------
StepCost == {0, 1}      \* units a polling step of the mission takes
HOLD == -1              \* the task goes on without awaiting

Decay(dl, d) == [t \in Tasks |-> IF dl[t] > d THEN dl[t] - d ELSE 0]
Due(dl, d) == {t \in Tasks : dl[t] > 0 /\ dl[t] <= d}
Orders(S) == {s \in [1..Cardinality(S) -> S] :
                \A i, j \in 1..Cardinality(S) : i # j => s[i] # s[j]}
Elapse(e, d) == IF e + d > MaxElapsed THEN MaxElapsed ELSE e + d

\* the mission task is the one the loop runs now
MissionHasCPU ==
  /\ program = "loop"
  /\ \/ current = "mission"
     \/ current = "none" /\ ready # <<>> /\ Head(ready) = "mission"

\* the mission's step took d units and ends in sleep(s), or goes on (HOLD)
MissionSched(d, s) ==
  \E o \in Orders(Due(delay, d)) :
    LET q == (IF current = "mission" THEN ready ELSE Tail(ready)) \o o
        dl == Decay(delay, d)
    IN  /\ ready' = IF s = 0 THEN Append(q, "mission") ELSE q
        /\ delay' = [dl EXCEPT !["mission"] = IF s > 0 THEN s ELSE 0]
        /\ current' = IF s < 0 THEN "mission" ELSE "none"

\* state of the loop right after create_task(manage_drive()) and
\* run_until_complete(run()) have queued the two coroutines
LoopStart ==
  /\ ready = <<"drive", "mission">>
  /\ delay = [t \in Tasks |-> 0]
  /\ current = "none"

NoCmd == [op |-> "none", speed |-> 0, turn |-> 0]
NoCall == [call |-> "none", before |-> "none"]

\* Player.__init__ (but for tension and asyq), the sensors before any
\* reading, the coroutines before their first step
Constructed ==
  /\ menu_item = 0 /\ set_item = 0
  /\ drive_speed = 0 /\ turn_rate = 0
  /\ drive_speed_factor = SPEED_FACTOR_INIT
  /\ elapsed = 0
  /\ cmd = NoCmd /\ issued = NoCmd
  /\ left_color = "NONE" /\ refl = 0 /\ backwards_arg = FALSE
  /\ phase = "INIT" /\ pc = "guard" /\ run_state = "pending" /\ call_idx = 0
  /\ unit_call = NoCall

\* ------------------------------------------------------------------------
\* The main script up to the loop: startup and the two menus
\* ------------------------------------------------------------------------
\* player.startup(): Catapult.startup homes the release motor
Startup ==
  /\ program = "startup"
  /\ catapult' = lock(catapult)
  /\ program' = "main_menu"
  /\ UNCHANGED <<menuVars, cmdVars, sensorVars, missionVars, schedVars,
                 elapsed, cmd, unit_call, issued>>

\* MainMenu.process_input, one iteration in which the test for button b is
\* the first one to succeed (pressed() is read anew by every test)
MainMenuInput(b) ==
  /\ program = "main_menu"
  /\ CASE b = "UP" ->
            /\ menu_item' = (menu_item - 1) % 2
            /\ UNCHANGED <<program, set_item, set_tension, set_asyq, schedVars>>
       [] b = "DOWN" ->
            /\ menu_item' = (menu_item + 1) % 2
            /\ UNCHANGED <<program, set_item, set_tension, set_asyq, schedVars>>
       [] b \in {"LEFT", "RIGHT"} ->
            \* self.settings: MainMenu has no such attribute
            /\ program' = IF "settings" \in MainMenuAttrs THEN "main_menu" ELSE "error"
            /\ UNCHANGED <<menu_item, set_item, set_tension, set_asyq, schedVars>>
       [] b = "CENTER" /\ menu_item = 0 ->
            /\ program' = "loop"
            /\ ready' = <<"drive", "mission">>
            /\ delay' = [t \in Tasks |-> 0]
            /\ current' = "none"
            /\ UNCHANGED <<menu_item, set_item, set_tension, set_asyq>>
       [] b = "CENTER" /\ menu_item # 0 ->
            \* SettingsPage.__init__
            /\ program' = "settings"
            /\ set_item' = 0
            /\ set_tension' = tension
            /\ set_asyq' = asyq
            /\ UNCHANGED <<menu_item, schedVars>>
       [] OTHER ->
            UNCHANGED <<program, menu_item, set_item, set_tension, set_asyq, schedVars>>
  /\ UNCHANGED <<tension, asyq, cmdVars, sensorVars, missionVars,
                 elapsed, catapult, cmd, unit_call, issued>>

\* SettingsPage.process_input, one iteration
SettingsInput(b) ==
  /\ program = "settings"
  /\ CASE b = "UP" ->
            /\ set_item' = (set_item - 1) % 2
            /\ UNCHANGED <<program, set_tension, set_asyq, tension, asyq>>
       [] b = "DOWN" ->
            /\ set_item' = (set_item + 1) % 2
            /\ UNCHANGED <<program, set_tension, set_asyq, tension, asyq>>
       [] b = "LEFT" ->
            /\ set_tension' = IF set_item = 0
                 THEN SettingsLeft(TENSION_MIN, TENSION_MAX, set_tension)
                 ELSE set_tension
            /\ set_asyq' = IF set_item = 1
                 THEN SettingsLeft(ASYQ_MIN, ASYQ_MAX, set_asyq)
                 ELSE set_asyq
            /\ UNCHANGED <<program, set_item, tension, asyq>>
       [] b = "RIGHT" ->
            /\ set_tension' = IF set_item = 0
                 THEN SettingsRight(TENSION_MIN, TENSION_MAX, set_tension)
                 ELSE set_tension
            /\ set_asyq' = IF set_item = 1
                 THEN SettingsRight(ASYQ_MIN, ASYQ_MAX, set_asyq)
                 ELSE set_asyq
            /\ UNCHANGED <<program, set_item, tension, asyq>>
       [] b = "CENTER" ->
            /\ asyq' = set_asyq
            /\ tension' = set_tension
            /\ program' = "main_menu"
            /\ UNCHANGED <<set_item, set_tension, set_asyq>>
       [] OTHER ->
            UNCHANGED <<program, set_item, set_tension, set_asyq, tension, asyq>>
  /\ UNCHANGED <<menu_item, cmdVars, sensorVars, missionVars, schedVars,
                 elapsed, catapult, cmd, unit_call, issued>>

MenuInit ==
  /\ program = "startup"
  /\ catapult = "UNKNOWN"
  /\ Constructed
  /\ tension = TENSION_INIT /\ asyq = ASYQ_INIT
  /\ set_tension = TENSION_INIT /\ set_asyq = ASYQ_INIT
  /\ ready = <<>> /\ delay = [t \in Tasks |-> 0] /\ current = "none"

MenuNext ==
  \/ Startup
  \/ \E b \in Buttons : MainMenuInput(b)
  \/ \E b \in Buttons : SettingsInput(b)

SpecMenu == MenuInit /\ [][MenuNext]_vars

\* mutation: manage_drive clears turn_rate when it stops
DriveStep_clears ==
  /\ program = "loop"
  /\ current = "none"
  /\ ready # <<>> /\ Head(ready) = "drive"
  /\ cmd' = manage_drive(drive_speed, drive_speed_factor, turn_rate)
  /\ issued' = cmd'
  /\ ready' = Tail(ready)
  /\ delay' = [delay EXCEPT !["drive"] = SLEEP_DRIVE]
  /\ turn_rate' = IF drive_speed = 0 THEN 0 ELSE turn_rate
  /\ UNCHANGED <<program, menuVars, drive_speed, drive_speed_factor,
                 sensorVars, missionVars,
                 elapsed, catapult, current, unit_call>>

\* mutation: manage_drive runs although another task holds the processor
DriveStep_preempt ==
  /\ program = "loop"
  /\ ready # <<>> /\ Head(ready) = "drive"
  /\ cmd' = manage_drive(drive_speed, drive_speed_factor, turn_rate)
  /\ issued' = cmd'
  /\ ready' = Tail(ready)
  /\ delay' = [delay EXCEPT !["drive"] = SLEEP_DRIVE]
  /\ UNCHANGED <<program, menuVars, cmdVars, sensorVars, missionVars,
                 elapsed, catapult, current, unit_call>>

\* ------------------------------------------------------------------------
\* The loop: manage_drive
\* ------------------------------------------------------------------------
\* one iteration of manage_drive's while True, up to its sleep(0.01)
DriveStep ==
  /\ program = "loop"
  /\ current = "none"
  /\ ready # <<>> /\ Head(ready) = "drive"
  /\ cmd' = manage_drive(drive_speed, drive_speed_factor, turn_rate)
  /\ issued' = cmd'
  /\ ready' = Tail(ready)
  /\ delay' = [delay EXCEPT !["drive"] = SLEEP_DRIVE]
  /\ UNCHANGED <<program, menuVars, cmdVars, sensorVars, missionVars,
                 elapsed, catapult, current, unit_call>>

\* mutation: the guard of init_routine negated (loops while GREEN)
init_routine_notgreen(c, d) ==
  /\ MissionHasCPU
  /\ phase = "INIT" /\ pc = "guard"
  /\ left_color' = c
  /\ run_state' = "running"
  /\ elapsed' = Elapse(elapsed, d)
  /\ IF c = "GREEN"
       THEN /\ MissionSched(d, 0)
            /\ UNCHANGED phase
       ELSE /\ MissionSched(d, HOLD)
            /\ phase' = NextPhase(phase)
  /\ UNCHANGED <<program, menuVars, cmdVars, refl, backwards_arg, pc, call_idx,
                 catapult, cmd, unit_call, issued>>

\* ------------------------------------------------------------------------
\* The loop: run() and the routines it awaits
\* ------------------------------------------------------------------------
\* init_routine: one evaluation of the while guard (left colour c read)
init_routine(c, d) ==
  /\ MissionHasCPU
  /\ phase = "INIT" /\ pc = "guard"
  /\ left_color' = c
  /\ run_state' = "running"
  /\ elapsed' = Elapse(elapsed, d)
  /\ IF c # "GREEN"
       THEN /\ MissionSched(d, 0)
            /\ UNCHANGED phase
       ELSE /\ MissionSched(d, HOLD)
            /\ phase' = NextPhase(phase)
  /\ UNCHANGED <<program, menuVars, cmdVars, refl, backwards_arg, pc, call_idx,
                 catapult, cmd, unit_call, issued>>

\* start_routine: one evaluation of the while guard, and the body (forward())
start_routine(c, d) ==
  /\ MissionHasCPU
  /\ phase = "ALIGN_ON_START" /\ pc = "guard"
  /\ left_color' = c
  /\ IF c = "GREEN"
       THEN \* forward()
            /\ cmd' = [op |-> "reset", speed |-> 0, turn |-> 0]
            /\ drive_speed' = MAX_SPEED
            /\ turn_rate' = 0
            /\ elapsed' = 0
            /\ MissionSched(d, 0)
            /\ UNCHANGED phase
       ELSE \* falls into walk_along_line_forward, which sets move_start
            /\ phase' = NextPhase(phase)
            /\ elapsed' = 0
            /\ MissionSched(d, HOLD)
            /\ UNCHANGED <<cmd, drive_speed, turn_rate>>
  /\ UNCHANGED <<program, menuVars, drive_speed_factor, refl, backwards_arg,
                 pc, run_state, call_idx, catapult, unit_call, issued>>

\* mutation: throw_routine without its stop()
walk_along_line_forward_nostop(c, r, d) ==
  /\ MissionHasCPU
  /\ phase = "FORWARD_FOLLOW" /\ pc = "guard"
  /\ left_color' = c
  /\ elapsed' = Elapse(elapsed, d)
  /\ IF c # "RED"
       THEN /\ refl' = r
            /\ backwards_arg' = FALSE
            /\ turn_rate' = update_speed_turn_rate(r, FALSE)
            /\ MissionSched(d, SLEEP_FOLLOW)
            /\ UNCHANGED <<phase, pc, drive_speed>>
       ELSE \* throw_routine: stop(), then sleep(0.2)
            /\ phase' = NextPhase(phase)
            /\ pc' = "settle"
            /\ MissionSched(d, SLEEP_SETTLE)
            /\ UNCHANGED <<refl, backwards_arg, drive_speed, turn_rate>>
  /\ UNCHANGED <<program, menuVars, drive_speed_factor, run_state, call_idx,
                 catapult, cmd, unit_call, issued>>

\* mutation: the line-lost variant, the loop ends on WHITE
walk_along_line_forward_white(c, r, d) ==
  /\ MissionHasCPU
  /\ phase = "FORWARD_FOLLOW" /\ pc = "guard"
  /\ left_color' = c
  /\ elapsed' = Elapse(elapsed, d)
  /\ IF c # "WHITE"
       THEN /\ refl' = r
            /\ backwards_arg' = FALSE
            /\ turn_rate' = update_speed_turn_rate(r, FALSE)
            /\ MissionSched(d, SLEEP_FOLLOW)
            /\ UNCHANGED <<phase, pc, drive_speed>>
       ELSE \* throw_routine: stop(), then sleep(0.2)
            /\ phase' = NextPhase(phase)
            /\ pc' = "settle"
            /\ drive_speed' = 0
            /\ turn_rate' = 0
            /\ MissionSched(d, SLEEP_SETTLE)
            /\ UNCHANGED <<refl, backwards_arg>>
  /\ UNCHANGED <<program, menuVars, drive_speed_factor, run_state, call_idx,
                 catapult, cmd, unit_call, issued>>

\* mutation: the forward loop passes backwards=True
walk_along_line_forward_backflag(c, r, d) ==
  /\ MissionHasCPU
  /\ phase = "FORWARD_FOLLOW" /\ pc = "guard"
  /\ left_color' = c
  /\ elapsed' = Elapse(elapsed, d)
  /\ IF c # "RED"
       THEN /\ refl' = r
            /\ backwards_arg' = FALSE
            /\ turn_rate' = update_speed_turn_rate(r, TRUE)
            /\ MissionSched(d, SLEEP_FOLLOW)
            /\ UNCHANGED <<phase, pc, drive_speed>>
       ELSE \* throw_routine: stop(), then sleep(0.2)
            /\ phase' = NextPhase(phase)
            /\ pc' = "settle"
            /\ drive_speed' = 0
            /\ turn_rate' = 0
            /\ MissionSched(d, SLEEP_SETTLE)
            /\ UNCHANGED <<refl, backwards_arg>>
  /\ UNCHANGED <<program, menuVars, drive_speed_factor, run_state, call_idx,
                 catapult, cmd, unit_call, issued>>

\* walk_along_line_forward: one evaluation of the while guard and the body
\* (right reflectance r read), or the fall into throw_routine up to its sleep
walk_along_line_forward(c, r, d) ==
  /\ MissionHasCPU
  /\ phase = "FORWARD_FOLLOW" /\ pc = "guard"
  /\ left_color' = c
  /\ elapsed' = Elapse(elapsed, d)
  /\ IF c # "RED"
       THEN /\ refl' = r
            /\ backwards_arg' = FALSE
            /\ turn_rate' = update_speed_turn_rate(r, FALSE)
            /\ MissionSched(d, SLEEP_FOLLOW)
            /\ UNCHANGED <<phase, pc, drive_speed>>
       ELSE \* throw_routine: stop(), then sleep(0.2)
            /\ phase' = NextPhase(phase)
            /\ pc' = "settle"
            /\ drive_speed' = 0
            /\ turn_rate' = 0
            /\ MissionSched(d, SLEEP_SETTLE)
            /\ UNCHANGED <<refl, backwards_arg>>
  /\ UNCHANGED <<program, menuVars, drive_speed_factor, run_state, call_idx,
                 catapult, cmd, unit_call, issued>>

\* throw_routine after the settle delay: drivebase.turn(ANGLES[asyq]) begins
ThrowAim ==
  /\ MissionHasCPU
  /\ phase = "THROW" /\ pc = "settle"
  /\ cmd' = [op |-> "turn", speed |-> 0, turn |-> ANGLES[asyq]]
  /\ pc' = "turn"
  /\ MissionSched(0, HOLD)
  /\ UNCHANGED <<program, menuVars, cmdVars, sensorVars, phase, run_state,
                 call_idx, elapsed, catapult, unit_call, issued>>

\* the aiming turn has been made: catapult.shoot() begins its first call
TurnDone ==
  /\ MissionHasCPU
  /\ phase = "THROW" /\ pc = "turn"
  /\ pc' = "shoot"
  /\ call_idx' = 1
  /\ UNCHANGED <<program, menuVars, cmdVars, sensorVars, phase, run_state,
                 schedVars, elapsed, catapult, cmd, unit_call, issued>>

\* mutation: shoot() awaits sleep(0) between its calls
Stalled_yields ==
  /\ MissionHasCPU
  /\ phase = "THROW" /\ pc = "shoot"
  /\ call_idx \in 1..Len(ShootCalls)
  /\ catapult' = CatapultCall(ShootCalls[call_idx], catapult)
  /\ IF call_idx < Len(ShootCalls)
       THEN /\ call_idx' = call_idx + 1
            /\ MissionSched(0, 0)
            /\ UNCHANGED <<pc, cmd>>
       ELSE /\ call_idx' = 0
            /\ pc' = "turn_back"
            /\ cmd' = [op |-> "turn", speed |-> 0, turn |-> -ANGLES[asyq]]
            /\ MissionSched(0, HOLD)
  /\ UNCHANGED <<program, menuVars, cmdVars, sensorVars, phase, run_state,
                 elapsed, unit_call, issued>>

\* the release motor stalls: the run_until_stalled of the call in progress
\* returns; after the last call of shoot() the turn back begins
Stalled ==
  /\ MissionHasCPU
  /\ phase = "THROW" /\ pc = "shoot"
  /\ call_idx \in 1..Len(ShootCalls)
  /\ catapult' = CatapultCall(ShootCalls[call_idx], catapult)
  /\ IF call_idx < Len(ShootCalls)
       THEN /\ call_idx' = call_idx + 1
            /\ UNCHANGED <<pc, cmd>>
       ELSE /\ call_idx' = 0
            /\ pc' = "turn_back"
            /\ cmd' = [op |-> "turn", speed |-> 0, turn |-> -ANGLES[asyq]]
  /\ UNCHANGED <<program, menuVars, cmdVars, sensorVars, phase, run_state,
                 schedVars, elapsed, unit_call, issued>>

\* the turn back has been made: throw_routine returns and run() enters
\* walk_along_line_backwards
TurnBackDone ==
  /\ MissionHasCPU
  /\ phase = "THROW" /\ pc = "turn_back"
  /\ phase' = NextPhase(phase)
  /\ pc' = "entry"
  /\ UNCHANGED <<program, menuVars, cmdVars, sensorVars, run_state, call_idx,
                 schedVars, elapsed, catapult, cmd, unit_call, issued>>

\* walk_along_line_backwards: its entry (backwards(), sleep(0.1)), then one
\* evaluation of the while guard with the body, or the end of run()
walk_along_line_backwards(c, r, d) ==
  /\ MissionHasCPU
  /\ phase = "BACKWARD_FOLLOW"
  /\ CASE pc = "entry" ->
            \* backwards(): drivebase.reset() first, then the assignments
            /\ cmd' = [op |-> "reset", speed |-> 0, turn |-> 0]
            /\ drive_speed' = backwards.drive_speed
            /\ turn_rate' = backwards.turn_rate
            /\ IF backwards.raised
                 THEN \* the exception leaves run() and run_until_complete
                      /\ run_state' = "raised"
                      /\ program' = "error"
                      /\ MissionSched(0, HOLD)
                      /\ UNCHANGED <<pc, elapsed>>
                 ELSE /\ pc' = "guard"
                      /\ elapsed' = 0
                      /\ MissionSched(0, SLEEP_WALB)
                      /\ UNCHANGED <<run_state, program>>
            /\ UNCHANGED <<phase, sensorVars>>
       [] pc = "guard" ->
            /\ left_color' = c
            /\ elapsed' = Elapse(elapsed, d)
            /\ IF c # "GREEN"
                 THEN /\ refl' = r
                      /\ backwards_arg' = TRUE
                      /\ turn_rate' = update_speed_turn_rate(r, TRUE)
                      /\ MissionSched(d, SLEEP_FOLLOW)
                      /\ UNCHANGED <<phase, drive_speed, run_state, program>>
                 ELSE \* run() returns: run_until_complete stops the loop
                      /\ drive_speed' = 0
                      /\ turn_rate' = 0
                      /\ phase' = NextPhase(phase)
                      /\ run_state' = "returned"
                      /\ program' = "exit"
                      /\ MissionSched(d, HOLD)
                      /\ UNCHANGED <<refl, backwards_arg>>
            /\ UNCHANGED <<pc, cmd>>
  /\ UNCHANGED <<menuVars, drive_speed_factor, call_idx, catapult, unit_call, issued>>

\* time passes: nothing is due, or the mission sits in a blocking call
\* (drivebase.turn, run_until_stalled)
Tick ==
  /\ program = "loop"
  /\ \/ current = "none" /\ ready = <<>>
     \/ current = "mission" /\ pc \in {"turn", "shoot", "turn_back"}
  /\ \E o \in Orders(Due(delay, 1)) :
       /\ ready' = ready \o o
       /\ delay' = Decay(delay, 1)
  /\ elapsed' = Elapse(elapsed, 1)
  /\ UNCHANGED <<program, menuVars, cmdVars, sensorVars, missionVars,
                 current, catapult, cmd, unit_call, issued>>

\* the script at the moment the loop starts: the catapult homed by startup(),
\* the settings as the settings page last committed them
Init ==
  /\ Constructed
  /\ program = "loop"
  /\ catapult = "LOCKED"
  /\ tension \in {TENSION_MIN, TENSION_INIT, TENSION_MAX}
  /\ asyq \in ASYQ_MIN..ASYQ_MAX
  /\ set_tension = tension /\ set_asyq = asyq
  /\ LoopStart

Next ==
  \/ DriveStep
  \/ \E c \in Colors, d \in StepCost : init_routine(c, d)
  \/ \E c \in Colors, d \in StepCost : start_routine(c, d)
  \/ \E c \in Colors, r \in SampleReflections, d \in StepCost :
       walk_along_line_forward(c, r, d)
  \/ ThrowAim
  \/ TurnDone
  \/ Stalled
  \/ TurnBackDone
  \/ \E c \in Colors, r \in SampleReflections, d \in StepCost :
       walk_along_line_backwards(c, r, d)
  \/ Tick

Spec == Init /\ [][Next]_vars


\* ------------------------------------------------------------------------
\* Component harness: Catapult's methods and update_speed_turn_rate called
\* on their own, in any order and with any reading
\* ------------------------------------------------------------------------
UnitLock ==
  /\ program = "unit"
  /\ catapult' = lock(catapult)
  /\ unit_call' = [call |-> "lock", before |-> catapult]
  /\ UNCHANGED <<program, menuVars, cmdVars, sensorVars, missionVars,
                 schedVars, elapsed, cmd, issued>>

UnitRelease ==
  /\ program = "unit"
  /\ catapult' = release(catapult)
  /\ unit_call' = [call |-> "release", before |-> catapult]
  /\ UNCHANGED <<program, menuVars, cmdVars, sensorVars, missionVars,
                 schedVars, elapsed, cmd, issued>>

UnitShoot ==
  /\ program = "unit"
  /\ catapult' = shoot(catapult)
  /\ unit_call' = [call |-> "shoot", before |-> catapult]
  /\ UNCHANGED <<program, menuVars, cmdVars, sensorVars, missionVars,
                 schedVars, elapsed, cmd, issued>>

UnitUpdate(r, b) ==
  /\ program = "unit"
  /\ refl' = r
  /\ backwards_arg' = b
  /\ turn_rate' = update_speed_turn_rate(r, b)
  /\ unit_call' = [call |-> "update", before |-> catapult]
  /\ UNCHANGED <<program, menuVars, drive_speed, drive_speed_factor,
                 left_color, missionVars, schedVars, elapsed, catapult, cmd, issued>>

UnitInit ==
  /\ Constructed
  /\ program = "unit"
  /\ catapult = "UNKNOWN"
  /\ tension = TENSION_INIT /\ asyq = ASYQ_INIT
  /\ set_tension = TENSION_INIT /\ set_asyq = ASYQ_INIT
  /\ ready = <<>> /\ delay = [t \in Tasks |-> 0] /\ current = "none"

UnitNext ==
  \/ UnitLock
  \/ UnitRelease
  \/ UnitShoot
  \/ \E r \in 0..MaxReflection, b \in BOOLEAN : UnitUpdate(r, b)

SpecUnit == UnitInit /\ [][UnitNext]_vars


\* ------------------------------------------------------------------------
\* Properties
\* ------------------------------------------------------------------------
MissionEnded == run_state \in {"returned", "raised"}
LoopRunning == program = "loop"
DriveTaskScheduled ==
  /\ program = "loop"
  /\ \/ \E i \in 1..Len(ready) : ready[i] = "drive"
     \/ delay["drive"] > 0
\* a tick of the mission inside walk_along_line_forward: the guard did not
\* fire and the task went to its sleep(0.02)
ForwardTick ==
  /\ phase = "FORWARD_FOLLOW" /\ phase' = "FORWARD_FOLLOW"
  /\ delay["mission"] = 0 /\ delay'["mission"] = SLEEP_FOLLOW

\* C1: once the markers have arrived in order and the stall-homing calls have
\* completed, the mission has gone through all six phases in order and has
\* reached DONE: the mission task never ends in a phase other than DONE.
C1_MissionEndsInDone == MissionEnded => phase = "DONE"

\* C2: exactly one phase is active in every state, and every step leaves the
\* phase where it is or moves it to the next one of the order INIT,
\* ALIGN_ON_START, FORWARD_FOLLOW, THROW, BACKWARD_FOLLOW, DONE.
C2_PhaseOrder ==
  /\ [](phase \in PhaseSet)
  /\ [][\/ PhaseIndex(phase') = PhaseIndex(phase)
        \/ PhaseIndex(phase') = PhaseIndex(phase) + 1]_vars
\* the mission has advanced four times, up to BACKWARD_FOLLOW
C2_Witness == phase = "BACKWARD_FOLLOW" /\ left_color = "RED"

\* C3: a step of manage_drive taken with drive_speed = 0 issues stop(),
\* whatever turn_rate is, and no drive() call ever carries speed 0.
C3_StopNotDriveZero ==
  /\ [](cmd.op = "drive" => cmd.speed # 0)
  /\ [][DriveStep /\ drive_speed = 0 => cmd'.op = "stop"]_vars
\* manage_drive has just issued stop() while turn_rate was not 0
C3_Witness ==
  /\ cmd.op = "stop" /\ drive_speed = 0 /\ turn_rate # 0
  /\ delay["drive"] = SLEEP_DRIVE

\* C4: after a completed shoot() the catapult is LOCKED, whatever it was
\* before the call.
C4_ShootEndsLocked == unit_call.call = "shoot" => catapult = "LOCKED"
\* shoot() was called on a RELEASED catapult
C4_Witness ==
  /\ unit_call = [call |-> "shoot", before |-> "RELEASED"]
  /\ catapult = "LOCKED"

\* C5: between the release() and the lock() of shoot() no other task runs:
\* the catapult is RELEASED only while the mission task holds the processor,
\* and manage_drive never takes a step while it is RELEASED.
C5_ShootAtomic ==
  /\ [](catapult = "RELEASED" => current = "mission" /\ phase = "THROW")
  /\ [][DriveStep => catapult # "RELEASED"]_vars
\* the catapult is RELEASED inside shoot() while manage_drive is due
C5_Witness ==
  /\ catapult = "RELEASED" /\ pc = "shoot"
  /\ ready # <<>> /\ Head(ready) = "drive"

\* C6: the forward turn rate is gain * (r - threshold) with gain 1/2 (here in
\* hundredths), and a reading equal to the threshold gives turn rate 0 in
\* both directions.
C6_TurnRate ==
  unit_call.call = "update" =>
    /\ ~backwards_arg => 2 * turn_rate = 100 * (refl - (BLACK + WHITE) \div 2)
    /\ refl = (BLACK + WHITE) \div 2 => turn_rate = 0
\* the backward direction was computed for a reading at the threshold
C6_Witness ==
  /\ unit_call.call = "update" /\ backwards_arg
  /\ refl = BW_THRESHOLD /\ turn_rate = 0

\* C7: in FORWARD_FOLLOW, a mission tick taken once the phase has lasted
\* longer than the decay threshold leaves the speed factor at one half.
C7_SpeedFactorHalved ==
  [][ForwardTick /\ elapsed > DecayThreshold
       => 2 * drive_speed_factor' = SPEED_FACTOR_INIT]_vars

\* C8: Player.tension stays within the bounds of the Tension setting,
\* whatever buttons the menus process.
C8_TensionInBounds == tension \in TENSION_MIN..TENSION_MAX
\* the setting was driven down to its lower bound and committed
C8_Witness ==
  /\ tension = TENSION_MIN /\ set_tension = TENSION_MIN
  /\ program = "main_menu"

\* C9: a fault raised inside the mission task leaves the loop running for
\* manage_drive.
C9_FaultKeepsLoopRunning == run_state = "raised" => LoopRunning

\* C10: once the mission task has ended, manage_drive is still scheduled
\* by the loop.
C10_DriveSurvivesMissionEnd == MissionEnded => DriveTaskScheduled


\* the call manage_drive would make from the command as it stands
Actuated == issued = manage_drive(drive_speed, drive_speed_factor, turn_rate)
\* the loop has just run an iteration of manage_drive
DriveStepped ==
  /\ ready # <<>> /\ Head(ready) = "drive"
  /\ ready' = Tail(ready)
  /\ delay'["drive"] = SLEEP_DRIVE
\* a tick of the mission inside walk_along_line_backwards
BackwardTick ==
  /\ phase = "BACKWARD_FOLLOW" /\ phase' = "BACKWARD_FOLLOW"
  /\ pc = "guard"
  /\ delay["mission"] = 0 /\ delay'["mission"] = SLEEP_FOLLOW

\* C11: whenever the mission task changes the drive command, or ends, the
\* command as it stood before has already been issued by manage_drive.
C11_NoStaleCommand ==
  [][cmdVars' # cmdVars \/ (MissionEnded' /\ ~MissionEnded) => Actuated]_vars

\* C12: a step of manage_drive leaves drive_speed, turn_rate,
\* drive_speed_factor, the mission phase and the catapult as they are.
C12_DriveStepFrame ==
  [][DriveStepped => UNCHANGED <<drive_speed, turn_rate, drive_speed_factor,
                                 phase, pc, catapult>>]_vars
\* manage_drive has just issued drive() with a turn rate the mission wrote
C12_Witness ==
  /\ issued.op = "drive" /\ cmd = issued
  /\ turn_rate # 0 /\ issued.turn = turn_rate
  /\ delay["drive"] = SLEEP_DRIVE

\* C13: the mission leaves INIT exactly on a GREEN reading, ALIGN_ON_START
\* exactly on a reading that is not GREEN, FORWARD_FOLLOW exactly on a RED
\* reading; no step of another task moves the phase.
C13_MarkerTransitions ==
  [][/\ MissionHasCPU /\ phase = "INIT"
          => (phase' = "ALIGN_ON_START" <=> left_color' = "GREEN")
     /\ MissionHasCPU /\ phase = "ALIGN_ON_START"
          => (phase' = "FORWARD_FOLLOW" <=> left_color' # "GREEN")
     /\ MissionHasCPU /\ phase = "FORWARD_FOLLOW"
          => (phase' = "THROW" <=> left_color' = "RED")
     /\ ~MissionHasCPU => phase' = phase]_vars
\* FORWARD_FOLLOW was entered on a RED reading and did not end on it: a
\* later WHITE reading keeps the mission in the phase
C13_Witness ==
  /\ phase = "FORWARD_FOLLOW" /\ left_color = "WHITE"
  /\ delay["mission"] = SLEEP_FOLLOW
  /\ drive_speed = MAX_SPEED

\* C14 (as claimed): INIT is left exactly when the left sensor reports a
\* colour that is not GREEN.
C14_InitExitsOnNotGreen ==
  [][MissionHasCPU /\ phase = "INIT"
       => (phase' = "ALIGN_ON_START" <=> left_color' # "GREEN")]_vars
\* C14 (amended): INIT is left exactly when the left sensor reports GREEN;
\* any other colour keeps the mission in INIT.
C14_InitExitsOnGreen ==
  [][MissionHasCPU /\ phase = "INIT"
       => /\ phase' = "ALIGN_ON_START" <=> left_color' = "GREEN"
          /\ phase' \in {"INIT", "ALIGN_ON_START"}]_vars
\* INIT has just been left on a GREEN reading, a non-GREEN one came before
C14_Witness ==
  /\ phase = "ALIGN_ON_START" /\ left_color = "GREEN"
  /\ current = "mission" /\ drive_speed = 0
  /\ delay["drive"] = 0

\* C15: shoot() runs with drive_speed = 0 and turn_rate = 0 and with stop()
\* as the last call of manage_drive; BACKWARD_FOLLOW is entered only after
\* the last call of shoot() has returned.
C15_ShootWhenStopped ==
  /\ [](pc = "shoot" => drive_speed = 0 /\ turn_rate = 0 /\ issued.op = "stop")
  /\ [][phase' = "BACKWARD_FOLLOW" /\ phase # "BACKWARD_FOLLOW"
          => pc = "turn_back" /\ call_idx = 0 /\ catapult = "LOCKED"]_vars
\* the first call of shoot() is in progress, the robot having driven before
C15_Witness ==
  /\ pc = "shoot" /\ call_idx = 1
  /\ issued.op = "stop" /\ refl = WHITE

\* C16: the entry of BACKWARD_FOLLOW leaves drive_speed at the negative
\* reverse speed and turn_rate at 0 with the phase timer reset, and the
\* speed stays negative while the phase lasts.
C16_ReverseSpeed ==
  /\ [][phase = "BACKWARD_FOLLOW" /\ pc = "entry"
          => /\ drive_speed' = -((MAX_SPEED * BACKWARDS_FACTOR) \div 10)
             /\ turn_rate' = 0
             /\ elapsed' = 0]_vars
  /\ [][phase = "BACKWARD_FOLLOW" /\ phase' = "BACKWARD_FOLLOW" /\ pc # "entry"
          => drive_speed' < 0]_vars

\* C17: the mission ends only at DONE, on a GREEN reading, with drive_speed
\* and turn_rate at 0, and the loop is still there to issue the stop().
C17_StoppedAtDone ==
  MissionEnded =>
    /\ phase = "DONE" /\ left_color = "GREEN"
    /\ drive_speed = 0 /\ turn_rate = 0
    /\ DriveTaskScheduled

C19_BlockedUntilStall ==
  /\ [](pc = "shoot" => phase = "THROW" /\ current = "mission")
  /\ [][pc = "shoot" /\ call_idx' = call_idx
          => /\ pc' = "shoot" /\ phase' = "THROW"
             /\ cmd' = cmd /\ issued' = issued
             /\ ~DriveStepped]_vars
\* the first call of shoot() has lasted while manage_drive became due
C19_Witness ==
  /\ pc = "shoot" /\ call_idx = 1 /\ catapult = "LOCKED"
  /\ ready = <<"drive">> /\ elapsed = MaxElapsed

\* C20: in FORWARD_FOLLOW the commanded speed is MAX_SPEED and the speed
\* factor is 1.
C20_ForwardSpeed ==
  phase = "FORWARD_FOLLOW" =>
    drive_speed = MAX_SPEED /\ drive_speed_factor = SPEED_FACTOR_INIT

====
